---- MODULE Spec2Model ----
(***************************************************************************)
(* HealthForAll back end (server.js): the LlamaParse submit/poll/extract   *)
(* orchestration (parseDocumentWithLlamaParse), the Gemini model fallback  *)
(* chain (summarizeWithGemini) and the POST /api/process-document handler. *)
(* Every await of the code is a separate step; the remote services'       *)
(* answers are the nondeterministic inputs of the steps.                   *)
(***************************************************************************)
EXTENDS Integers, Sequences, FiniteSets, TLC

(***************************************************************************)
(* JavaScript values: undefined, strings, and objects whose keys keep      *)
(* their insertion order (the order for...in and JSON.stringify use).      *)
(***************************************************************************)
Undef == [t |-> "undefined"]

\* the JavaScript value null
Null == [t |-> "null"]

Str(s) == [t |-> "string", s |-> s]

Obj(kv) == [t |-> "object", kv |-> kv]

KV(k, v) == [k |-> k, v |-> v]

IsString(v) == v.t = "string"

IsObject(v) == v.t = "object"

\* JavaScript truthiness: undefined and "" are falsy, objects are truthy.
Truthy(v) == \/ IsObject(v)
             \/ v.t = "function"
             \/ (IsString(v) /\ v.s # "")

\* obj[key]: the value stored under key, undefined when the key is absent
\* or obj is not an object (property access on a string primitive).
Get(obj, key) ==
    IF IsObject(obj) /\ \E i \in 1..Len(obj.kv) : obj.kv[i].k = key
    THEN LET i == CHOOSE j \in 1..Len(obj.kv) : obj.kv[j].k = key
         IN obj.kv[i].v
    ELSE Undef

HasKey(obj, key) == IsObject(obj) /\ \E i \in 1..Len(obj.kv) : obj.kv[i].k = key

\* a || b
Or2(a, b) == IF Truthy(a) THEN a ELSE b

(***************************************************************************)
(* JSON.stringify(value, null, 2)                                          *)
(***************************************************************************)
RECURSIVE Spaces(_)
Spaces(n) == IF n = 0 THEN "" ELSE " " \o Spaces(n - 1)

RECURSIVE Stringify(_, _)
RECURSIVE StringifyMembers(_, _, _, _)
\* the members of kv from index i on, each on its own line at indent ind;
\* members whose value is undefined are left out.
StringifyMembers(kv, i, ind, first) ==
    IF i > Len(kv) THEN ""
    ELSE IF kv[i].v = Undef THEN StringifyMembers(kv, i + 1, ind, first)
    ELSE (IF first THEN "" ELSE ",") \o "\n" \o Spaces(ind)
         \o "\"" \o kv[i].k \o "\": " \o Stringify(kv[i].v, ind)
         \o StringifyMembers(kv, i + 1, ind, FALSE)

Stringify(v, ind) ==
    IF IsString(v) THEN "\"" \o v.s \o "\""
    ELSE IF IsObject(v)
    THEN LET body == StringifyMembers(v.kv, 1, ind + 2, TRUE)
         IN IF body = "" THEN "{}"
            ELSE "{" \o body \o "\n" \o Spaces(ind) \o "}"
    ELSE "undefined"

JSONStringify(v) == Stringify(v, 0)

(***************************************************************************)
(* JSON.stringify(value)                                                   *)
(***************************************************************************)
RECURSIVE StringifyCompact(_)
RECURSIVE CompactMembers(_, _, _)
CompactMembers(kv, i, first) ==
    IF i > Len(kv) THEN ""
    ELSE IF kv[i].v = Undef THEN CompactMembers(kv, i + 1, first)
    ELSE (IF first THEN "" ELSE ",")
         \o "\"" \o kv[i].k \o "\":" \o StringifyCompact(kv[i].v)
         \o CompactMembers(kv, i + 1, FALSE)

StringifyCompact(v) ==
    IF IsString(v) THEN "\"" \o v.s \o "\""
    ELSE IF IsObject(v) THEN "{" \o CompactMembers(v.kv, 1, TRUE) \o "}"
    ELSE "undefined"

(***************************************************************************)
(* Result extraction of parseDocumentWithLlamaParse                        *)
(***************************************************************************)
\* minimum length (exclusive) of a string findTextInObject accepts
MinTextLen == 100

\* the test that lets a string of exactly 100 characters through
IsLongTextInclusive(v) == IsString(v) /\ Len(v.s) >= MinTextLen

\* typeof obj[key] === 'string' && obj[key].length > 100
IsLongText(v) == IsString(v) /\ Len(v.s) > MinTextLen

RECURSIVE findTextInObject(_)
RECURSIVE findTextFrom(_, _)
\* the for...in loop of findTextInObject from key index i on
findTextFrom(kv, i) ==
    IF i > Len(kv) THEN Undef
    ELSE IF IsLongText(kv[i].v) THEN kv[i].v
    ELSE IF IsObject(kv[i].v)
    THEN LET found == findTextInObject(kv[i].v)
         IN IF Truthy(found) THEN found ELSE findTextFrom(kv, i + 1)
    ELSE findTextFrom(kv, i + 1)

findTextInObject(obj) == IF IsObject(obj) THEN findTextFrom(obj.kv, 1) ELSE Undef

\* const hasResult = markdown || text || content || result || data || parsed_content
hasResult(d) ==
    \/ Truthy(Get(d, "markdown"))
    \/ Truthy(Get(d, "text"))
    \/ Truthy(Get(d, "content"))
    \/ Truthy(Get(d, "result"))
    \/ Truthy(Get(d, "data"))
    \/ Truthy(Get(d, "parsed_content"))

\* the branch taken for a truthy `result`
ExtractResult(c) ==
    IF IsString(c) THEN c
    ELSE IF Truthy(Get(c, "markdown")) THEN Get(c, "markdown")
    ELSE IF Truthy(Get(c, "text")) THEN Get(c, "text")
    ELSE IF Truthy(Get(c, "content")) THEN Get(c, "content")
    ELSE Str("")

\* the branch taken for a truthy `data` or `document`
ExtractDataOrDocument(c) ==
    IF IsString(c) THEN c
    ELSE IF Truthy(Get(c, "markdown")) THEN Get(c, "markdown")
    ELSE IF Truthy(Get(c, "text")) THEN Get(c, "text")
    ELSE Str("")

\* the chain with a last resort that gives up when no long string is found
ExtractNoStringify(d) ==
    IF Truthy(Get(d, "markdown")) THEN Get(d, "markdown")
    ELSE IF Truthy(Get(d, "text")) THEN Get(d, "text")
    ELSE IF Truthy(Get(d, "content")) THEN Get(d, "content")
    ELSE IF Truthy(Get(d, "parsed_content")) THEN Get(d, "parsed_content")
    ELSE IF Truthy(Get(d, "result")) THEN ExtractResult(Get(d, "result"))
    ELSE IF Truthy(Get(d, "data")) THEN ExtractDataOrDocument(Get(d, "data"))
    ELSE IF Truthy(Get(d, "document")) THEN ExtractDataOrDocument(Get(d, "document"))
    ELSE IF IsString(d) THEN d
    ELSE Or2(findTextInObject(d), Str(""))

\* The if/else-if chain that assigns parsedText from documentData;
\* Str("") is parsedText left at its initial value ''.
Extract(d) ==
    IF Truthy(Get(d, "markdown")) THEN Get(d, "markdown")
    ELSE IF Truthy(Get(d, "text")) THEN Get(d, "text")
    ELSE IF Truthy(Get(d, "content")) THEN Get(d, "content")
    ELSE IF Truthy(Get(d, "parsed_content")) THEN Get(d, "parsed_content")
    ELSE IF Truthy(Get(d, "result")) THEN ExtractResult(Get(d, "result"))
    ELSE IF Truthy(Get(d, "data")) THEN ExtractDataOrDocument(Get(d, "data"))
    ELSE IF Truthy(Get(d, "document")) THEN ExtractDataOrDocument(Get(d, "document"))
    ELSE IF IsString(d) THEN d
    ELSE Or2(findTextInObject(d), Str(JSONStringify(d)))

(***************************************************************************)
(* String helpers: String.prototype.includes, trim, toLowerCase            *)
(***************************************************************************)
\* s.includes(pat)
Includes(s, pat) ==
    \E i \in 1..(Len(s) - Len(pat) + 1) : SubSeq(s, i, i + Len(pat) - 1) = pat

WhiteSpace == {" ", "\n", "\t"}

RECURSIVE TrimStart(_)
TrimStart(s) ==
    IF Len(s) > 0 /\ SubSeq(s, 1, 1) \in WhiteSpace
    THEN TrimStart(SubSeq(s, 2, Len(s))) ELSE s

RECURSIVE TrimEnd(_)
TrimEnd(s) ==
    IF Len(s) > 0 /\ SubSeq(s, Len(s), Len(s)) \in WhiteSpace
    THEN TrimEnd(SubSeq(s, 1, Len(s) - 1)) ELSE s

\* the blank check without the trim
TrimNothing(s) == s

\* s.trim()
Trim(s) == TrimEnd(TrimStart(s))

\* path.extname(filePath).toLowerCase() on the extensions the model uses
ToLowerCaseExt(ext) ==
    IF ext \in {".txt", ".TXT", ".Txt"} THEN ".txt"
    ELSE IF ext \in {".pdf", ".PDF"} THEN ".pdf"
    ELSE ext

(***************************************************************************)
(* Files.  A path is its stem and its extension (what path.extname sees);  *)
(* a file is a path with its contents, or a path that names nothing.       *)
(***************************************************************************)
File(ext, content, exists) == [ext |-> ext, content |-> content, exists |-> exists]

NoFile == [ext |-> "", content |-> "", exists |-> FALSE]

\* readTextFile(filePath): the contents of a .txt file, null (Undef) for
\* any other extension and when reading throws.
readTextFile(f) ==
    IF ToLowerCaseExt(f.ext) = ".txt"
    THEN IF f.exists THEN Str(f.content) ELSE Undef
    ELSE Undef

\* multer({dest: 'uploads/'}) stores an upload under a generated name that
\* has no extension; the contents are the uploaded bytes.
MulterStore(f) == File("", f.content, TRUE)

(***************************************************************************)
(* Inputs: the answers of the remote parsing service                       *)
(***************************************************************************)
T10 == "0123456789"

T50 == T10 \o T10 \o T10 \o T10 \o T10

\* a string of exactly 100 characters and one of 150
Text100 == T50 \o T50

Text150 == T50 \o T50 \o T50

\* the values a recognized field takes when it is the only one present
FieldValues(k) ==
    IF k = "markdown" THEN {Str(""), Str("MD"), Str("  \n")}
    ELSE IF k = "text" THEN {Str(""), Str("TX")}
    ELSE IF k = "content" THEN {Str("CT")}
    ELSE IF k = "parsed_content" THEN {Str("PC")}
    ELSE IF k = "result"
    THEN {Str("RS"), Obj(<<>>), Obj(<<KV("markdown", Str("R.md"))>>),
          Obj(<<KV("text", Str("R.tx"))>>), Obj(<<KV("content", Str("R.ct"))>>)}
    ELSE IF k = "data"
    THEN {Str("DT"), Obj(<<>>), Obj(<<KV("markdown", Str("D.md"))>>),
          Obj(<<KV("text", Str("D.tx"))>>), Obj(<<KV("content", Str("D.ct"))>>)}
    ELSE IF k = "document"
    THEN {Str("DC"), Obj(<<>>), Obj(<<KV("markdown", Str("O.md"))>>),
          Obj(<<KV("text", Str("O.tx"))>>), Obj(<<KV("content", Str("O.ct"))>>)}
    ELSE \* an unrecognized key
         {Str("j-1"), Str(Text100), Str(Text150),
          Obj(<<KV("id", Str("j-1")), KV("output", Str(Text150))>>)}

\* the values a recognized field takes next to a second field
PairValues(k) ==
    IF k = "markdown" THEN {Str(""), Str("MD")}
    ELSE IF k = "text" THEN {Str(""), Str("TX")}
    ELSE IF k = "content" THEN {Str("CT")}
    ELSE IF k = "parsed_content" THEN {Str("PC")}
    ELSE IF k = "result" THEN {Str("RS"), Obj(<<>>)}
    ELSE IF k = "data" THEN {Str("DT"), Obj(<<KV("text", Str("D.tx"))>>)}
    ELSE IF k = "document" THEN {Str("DC")}
    ELSE {Str(Text150)}

\* the recognized fields in the order of the extraction chain, then one
\* key the chain does not know
FieldOrder == <<"markdown", "text", "content", "parsed_content",
                "result", "data", "document", "job">>

\* response bodies: no field, one field, or two fields
Bodies ==
    {<<>>}
    \cup UNION {{<<KV(FieldOrder[i], v)>> : v \in FieldValues(FieldOrder[i])}
                   : i \in 1..Len(FieldOrder)}
    \cup UNION {UNION {{<<KV(FieldOrder[i], v), KV(FieldOrder[j], w)>> :
                          v \in PairValues(FieldOrder[i]), w \in PairValues(FieldOrder[j])}
                       : j \in (i + 1)..Len(FieldOrder)}
                   : i \in 1..Len(FieldOrder)}

\* answers of the status endpoints
StatusPayloads ==
    {Obj(<<KV("status", Str("success"))>> \o b) :
        b \in {<<>>,
               <<KV("markdown", Str("MD"))>>,
               <<KV("markdown", Str("  \n"))>>,
               <<KV("markdown", Str("")), KV("text", Str("TX"))>>,
               <<KV("result", Obj(<<>>)), KV("data", Str("DT"))>>,
               <<KV("document", Str("DC"))>>,
               <<KV("job", Obj(<<KV("id", Str("j-1")), KV("output", Str(Text150))>>))>>}}
    \cup {Obj(<<KV("status", Str(st))>> \o b) :
            st \in {"SUCCESS", "Success"},
            b \in {<<KV("markdown", Str("MD"))>>}}
    \cup {Obj(<<KV("status", Str(st))>>) :
            st \in {"pending", "PENDING", "Pending", "processing"}}
    \cup {Obj(<<KV("id", Str("j-1"))>>)}
    \cup {Obj(<<KV("status", Str("error")), KV("error", Str("bad file")),
                KV("message", Str("quota"))>>),
          Obj(<<KV("status", Str("ERROR")), KV("message", Str("quota"))>>),
          Obj(<<KV("status", Str("Error")), KV("error", Str("bad file"))>>),
          Obj(<<KV("status", Str("error"))>>)}

\* answers of the result-retrieval endpoints and of the fresh status check
ResultPayloads ==
    {Obj(<<>>), Str("plain text"), Str(""),
     Obj(<<KV("markdown", Str("E.md"))>>),
     Obj(<<KV("result", Obj(<<>>))>>),
     Obj(<<KV("pages", Obj(<<KV("md", Str(Text150))>>))>>)}

\* An error object: message, error.response?.status (0 when the error has
\* no response) and error.response?.data.
Err(message, status, data) == [message |-> message, status |-> status, data |-> data]

\* new Error(message)
Error(message) == Err(message, 0, Undef)

\* the ways an axios call fails
Faults == {Err("Request failed with status code 404", 404,
               Obj(<<KV("detail", Str("Not Found"))>>)),
           Err("Request failed with status code 500", 500,
               Str("Internal Server Error")),
           Err("timeout of 10000ms exceeded", 0, Undef)}

\* answers of the upload endpoint (response.data)
SubmitPayloads ==
    {Obj(<<KV("id", Str("j-1")), KV("status", Str("PENDING"))>>),
     Obj(<<KV("id", Str("")), KV("job_id", Str("j-2"))>>),
     Obj(<<KV("id", Str(""))>>),
     Obj(<<KV("status", Str("PENDING"))>>),
     Obj(<<>>)}

\* const jobId = response.data.id || response.data.job_id
JobIdOf(data) == Or2(Get(data, "id"), Get(data, "job_id"))

\* the check left out
MissingJobIdSkipped(data) == FALSE

\* if (!jobId)
MissingJobId(data) == ~Truthy(JobIdOf(data))

\* files handed to parseDocumentWithLlamaParse directly
ParseFiles == {File(".txt", "hello", TRUE), File(".TXT", "hello", TRUE),
               File(".txt", "", TRUE), File(".txt", "hello", FALSE),
               File(".pdf", "%PDF", TRUE), File(".pdf", "%PDF", FALSE)}

(***************************************************************************)
(* State                                                                   *)
(***************************************************************************)
VARIABLES
    mode,            \* what was invoked: "idle", "parse", "summarize", "request"
    \* parseDocumentWithLlamaParse: its position, argument and locals
    parsePc, filePath, jobId, attempts, parsedText, statusData,
    documentData, endpointIdx,
    parseReturn,     \* the value parse returned (Undef: none)
    parseError,      \* the message of the error parse threw ("": none)
    \* what the remote parsing service saw and answered
    submitData,      \* response.data of the upload (Undef: no answer yet)
    polls,           \* poll iterations begun (primary status queries issued)
    resultCalled,    \* a result endpoint or a fresh status check was called
    lastObserved,    \* what the latest poll iteration observed: the status
                     \* kind, "fault404"/"fault" when the status query failed,
                     \* "primary404"/"primaryFault" while the legacy query runs
    priorObserved,   \* what all the iterations before the latest observed
    uploadSent,      \* the upload request was sent
    \* summarizeWithGemini: its position, arguments and locals
    sumPc, text, targetLanguage, prompt, modelIdx, summary,
    sumReturn,       \* the value summarize returned (Undef: none)
    sumError,        \* the message of the error summarize threw ("": none)
    \* what the summarization service saw and answered
    sdkCalls,        \* the SDK calls made: model name and outcome, in order
    restCalls,       \* the REST calls made: prompt and outcome, in order
    \* the POST /api/process-document handler
    handlerPc, reqFile, reqLanguage, handlerParsedText,
    uploadStored,    \* the upload exists in uploads/
    responses,       \* the responses sent: status and body, in order
    \* the event loop: the variables above are the frame of the request
    \* that runs; a second request waits at one of its awaits
    active,          \* the request that runs: 1 or 2
    suspended,       \* the frame of the waiting request (Undef: none)
    \* the front-end App component: its useState values
    selectedFile, selectedLanguage, isLoading, appSummary, appError,
    inFlight,        \* handleSubmit calls waiting at their fetch
    lastRequest      \* the form data of the latest request sent (Undef: none)

parseVars == <<parsePc, filePath, jobId, attempts, parsedText, statusData,
               documentData, endpointIdx, parseReturn, parseError,
               submitData, polls, resultCalled, lastObserved, priorObserved,
               uploadSent>>

sumVars == <<sumPc, text, targetLanguage, prompt, modelIdx, summary,
             sumReturn, sumError, sdkCalls, restCalls>>

handlerVars == <<handlerPc, reqFile, reqLanguage, handlerParsedText,
                 uploadStored, responses>>

eventLoopVars == <<active, suspended>>

appVars == <<selectedFile, selectedLanguage, isLoading, appSummary, appError,
             inFlight, lastRequest>>

serverVars == <<mode, parseVars, sumVars, handlerVars, eventLoopVars>>

vars == <<serverVars, appVars>>

\* const maxAttempts = 60
maxAttempts == 60

\* the six resultEndpoints
NumResultEndpoints == 6

NoJobIdMsg(data) ==
    "No job ID returned from LlamaParse. Response: " \o StringifyCompact(data)

JobFailedMsg(data) ==
    "LlamaParse parsing failed: "
    \o Or2(Get(data, "error"), Or2(Get(data, "message"), Str("LlamaParse parsing failed"))).s

NotFoundMsg == "LlamaParse job not found. The job may have expired."

TimeoutMsg == "LlamaParse parsing timed out after 2 minutes"

NoTextMsg == "No text extracted from document"

ParseFailedPrefix == "Failed to parse document with LlamaParse"

\* the message the outer catch of parse builds from the error it caught
WrapParseError(e) ==
    IF Truthy(e.data) THEN ParseFailedPrefix \o ": " \o StringifyCompact(e.data)
    ELSE IF e.message # "" THEN ParseFailedPrefix \o ": " \o e.message
    ELSE ParseFailedPrefix

\* assignment to the frame of parse
SetParse(pcv, att, txt, sd, dd, idx, ret, err) ==
    /\ parsePc' = pcv
    /\ attempts' = att
    /\ parsedText' = txt
    /\ statusData' = sd
    /\ documentData' = dd
    /\ endpointIdx' = idx
    /\ parseReturn' = ret
    /\ parseError' = err

\* return v
ParseReturns(v, att, txt, sd, dd) ==
    SetParse("done", att, txt, sd, dd, 0, v, "")

\* an error reaches the outer catch, which throws the wrapped error
ParseThrows(e, att, txt, sd, dd) ==
    SetParse("done", att, txt, sd, dd, 0, Undef, WrapParseError(e))

\* the two checks after the loop in the other order
AfterLoopNoTimeout(att, txt, sd, dd) ==
    IF ~Truthy(txt)
    THEN ParseThrows(Error(NoTextMsg), att, txt, sd, dd)
    ELSE ParseReturns(txt, att, txt, sd, dd)

\* the code after the while loop
AfterLoop(att, txt, sd, dd) ==
    IF ~Truthy(txt) /\ att >= maxAttempts
    THEN ParseThrows(Error(TimeoutMsg), att, txt, sd, dd)
    ELSE IF ~Truthy(txt)
    THEN ParseThrows(Error(NoTextMsg), att, txt, sd, dd)
    ELSE ParseReturns(txt, att, txt, sd, dd)

\* the loop test without attempts++
EndIterationNoIncrement(txt, sd, dd) ==
    IF attempts < maxAttempts
    THEN SetParse("poll", attempts, txt, Undef, Undef, 0, Undef, "")
    ELSE AfterLoop(attempts, txt, sd, dd)

\* attempts++ and the loop test; the locals of the iteration go out of scope
EndIteration(txt, sd, dd) ==
    IF attempts + 1 < maxAttempts
    THEN SetParse("poll", attempts + 1, txt, Undef, Undef, 0, Undef, "")
    ELSE AfterLoop(attempts + 1, txt, sd, dd)

\* catch (pollError) leaving the loop on every error response
PollCatchAnyStatus(e, sd, dd) ==
    IF e.status # 0
    THEN ParseThrows(Error(NotFoundMsg), attempts, parsedText, sd, dd)
    ELSE EndIteration(parsedText, sd, dd)

\* catch (pollError): only a 404 response leaves the loop
PollCatch(e, sd, dd) ==
    IF e.status = 404
    THEN ParseThrows(Error(NotFoundMsg), attempts, parsedText, sd, dd)
    ELSE EndIteration(parsedText, sd, dd)

\* the extraction chain without the break
ExtractStepNoBreak(sd, dd) == EndIteration(Extract(dd), sd, dd)

\* the extraction chain on documentData, then break or the next iteration
ExtractStep(sd, dd) ==
    LET txt == Extract(dd)
    IN IF Truthy(txt) THEN AfterLoop(attempts, txt, sd, dd)
       ELSE EndIteration(txt, sd, dd)

\* the status of a status answer, as the if/else-if chain tells them apart
StatusKind(d) ==
    LET st == Get(d, "status")
    IN IF st \in {Str("success"), Str("SUCCESS")} THEN "success"
       ELSE IF st \in {Str("error"), Str("ERROR")} THEN "error"
       ELSE IF st \in {Str("pending"), Str("PENDING")} THEN "pending"
       ELSE "unknown"

\* the status chain with an error thrown past the loop in its final else
HandleStatusUnknownThrows(d) ==
    /\ lastObserved' = StatusKind(d)
    /\ IF StatusKind(d) = "success"
       THEN IF hasResult(d) THEN ExtractStep(d, d)
            ELSE SetParse("resultEndpoint", attempts, parsedText, d, d, 1, Undef, "")
       ELSE IF StatusKind(d) = "error"
       THEN PollCatch(Error(JobFailedMsg(d)), d, Undef)
       ELSE IF StatusKind(d) = "pending"
       THEN EndIteration(parsedText, d, Undef)
       ELSE ParseThrows(Error("Unknown status"), attempts, parsedText, d, Undef)

\* the body of the try block once statusResponse is there
HandleStatus(d) ==
    /\ lastObserved' = StatusKind(d)
    /\ IF StatusKind(d) = "success"
       THEN IF hasResult(d) THEN ExtractStep(d, d)
            ELSE SetParse("resultEndpoint", attempts, parsedText, d, d, 1, Undef, "")
       ELSE IF StatusKind(d) = "error"
       THEN PollCatch(Error(JobFailedMsg(d)), d, Undef)
       ELSE EndIteration(parsedText, d, Undef)

\* what the iterations observed so far, the latest one folded in
FoldObserved ==
    IF lastObserved = "none" THEN priorObserved
    ELSE IF lastObserved = "pending" THEN priorObserved
    ELSE IF lastObserved = "unknown" /\ priorObserved \in {"pending", "transient"}
    THEN "transient"
    ELSE "mixed"

\* useState(null) four times and useState(false): the App as first rendered
InitApp ==
    /\ selectedFile = Null
    /\ selectedLanguage = Null
    /\ isLoading = FALSE
    /\ appSummary = Null
    /\ appError = Null
    /\ inFlight = 0
    /\ lastRequest = Undef

\* nothing has been called yet, apart from mode, parsePc and documentData
InitFrames ==
    /\ filePath = NoFile
    /\ jobId = Undef
    /\ attempts = 0
    /\ parsedText = Str("")
    /\ statusData = Undef
    /\ endpointIdx = 0
    /\ parseReturn = Undef
    /\ parseError = ""
    /\ submitData = Undef
    /\ polls = 0
    /\ resultCalled = FALSE
    /\ lastObserved = "none"
    /\ priorObserved = "pending"
    /\ uploadSent = FALSE
    /\ sumPc = "idle"
    /\ text = ""
    /\ targetLanguage = Undef
    /\ prompt = ""
    /\ modelIdx = 0
    /\ summary = Undef
    /\ sumReturn = Undef
    /\ sumError = ""
    /\ sdkCalls = <<>>
    /\ restCalls = <<>>
    /\ handlerPc = "idle"
    /\ reqFile = NoFile
    /\ reqLanguage = ""
    /\ handlerParsedText = Undef
    /\ uploadStored = FALSE
    /\ responses = <<>>

Init ==
    /\ mode = "idle"
    /\ parsePc = "idle"
    /\ documentData = Undef
    /\ InitFrames
    /\ active = 1
    /\ suspended = Undef
    /\ InitApp

\* parseDocumentWithLlamaParse(filePath) is called
CallParse ==
    /\ mode = "idle"
    /\ \E f \in ParseFiles :
          /\ filePath' = f
          /\ mode' = "parse"
          /\ parsePc' = "start"
    /\ UNCHANGED <<jobId, attempts, parsedText, statusData, documentData,
                   endpointIdx, parseReturn, parseError, submitData, polls,
                   resultCalled, lastObserved, priorObserved, uploadSent>>
    /\ UNCHANGED <<sumVars, handlerVars>>
    /\ UNCHANGED eventLoopVars
    /\ UNCHANGED appVars

\* readTextFile, then the upload is prepared and sent
ParseStart ==
    /\ parsePc = "start"
    /\ LET textContent == readTextFile(filePath)
       IN IF Truthy(textContent)
          THEN ParseReturns(textContent, attempts, parsedText, Undef, Undef)
          ELSE IF ~filePath.exists
          THEN ParseThrows(Error("ENOENT: no such file or directory"),
                           attempts, parsedText, Undef, Undef)
          ELSE SetParse("upload", attempts, parsedText, Undef, Undef, 0, Undef, "")
    /\ uploadSent' = (parsePc' = "upload")
    /\ UNCHANGED <<mode, filePath, jobId, submitData, polls, resultCalled,
                   lastObserved, priorObserved>>
    /\ UNCHANGED <<sumVars, handlerVars>>
    /\ UNCHANGED eventLoopVars
    /\ UNCHANGED appVars

\* the upload is answered with a job id, with none, or fails
Upload ==
    /\ parsePc = "upload"
    /\ \/ \E e \in Faults :
             /\ ParseThrows(e, attempts, parsedText, Undef, Undef)
             /\ UNCHANGED <<jobId, submitData>>
       \/ \E data \in SubmitPayloads :
             /\ submitData' = data
             /\ jobId' = JobIdOf(data)
             /\ IF MissingJobId(data)
                THEN ParseThrows(Error(NoJobIdMsg(data)), attempts, parsedText,
                                 Undef, Undef)
                ELSE SetParse("poll", 0, Str(""), Undef, Undef, 0, Undef, "")
    /\ UNCHANGED <<mode, filePath, polls, resultCalled, lastObserved,
                   priorObserved, uploadSent>>
    /\ UNCHANGED <<sumVars, handlerVars>>
    /\ UNCHANGED eventLoopVars
    /\ UNCHANGED appVars

\* the error of the primary path left to the catch of the iteration
PrimaryFailedNoFallback(v1Error) ==
    /\ lastObserved' = (IF v1Error.status = 404 THEN "primary404"
                        ELSE "primaryFault")
    /\ PollCatch(v1Error, Undef, Undef)

\* catch (v1Error): whatever the error, the legacy path is queried next
PrimaryFailed(v1Error) ==
    /\ lastObserved' = (IF v1Error.status = 404 THEN "primary404"
                        ELSE "primaryFault")
    /\ SetParse("pollLegacy", attempts, parsedText, Undef, Undef, 0, Undef, "")

\* a poll iteration: the delay, then the status query on the primary path
PollPrimary ==
    /\ parsePc = "poll"
    /\ polls' = polls + 1
    /\ priorObserved' = FoldObserved
    /\ \/ \E d \in StatusPayloads : HandleStatus(d)
       \/ \E v1Error \in Faults : PrimaryFailed(v1Error)
    /\ UNCHANGED <<mode, filePath, jobId, submitData, resultCalled, uploadSent>>
    /\ UNCHANGED <<sumVars, handlerVars>>
    /\ UNCHANGED eventLoopVars
    /\ UNCHANGED appVars

\* the primary query failed: the status query on the legacy path
PollLegacy ==
    /\ parsePc = "pollLegacy"
    /\ \/ \E d \in StatusPayloads : HandleStatus(d)
       \/ \E e \in Faults :
             /\ lastObserved' = (IF e.status = 404 THEN "fault404" ELSE "fault")
             /\ PollCatch(e, Undef, Undef)
    /\ UNCHANGED <<mode, filePath, jobId, submitData, polls, resultCalled,
                   priorObserved, uploadSent>>
    /\ UNCHANGED <<sumVars, handlerVars>>
    /\ UNCHANGED eventLoopVars
    /\ UNCHANGED appVars

\* the last endpoint failed: extraction without the fresh status check
EndpointFailedNoRefetch ==
    IF endpointIdx < NumResultEndpoints
    THEN SetParse("resultEndpoint", attempts, parsedText, statusData,
                  documentData, endpointIdx + 1, Undef, "")
    ELSE ExtractStep(statusData, statusData)

\* catch (endpointError): continue with the next endpoint; after the last
\* one foundResult is still false and the fresh status check follows
EndpointFailed ==
    IF endpointIdx < NumResultEndpoints
    THEN SetParse("resultEndpoint", attempts, parsedText, statusData,
                  documentData, endpointIdx + 1, Undef, "")
    ELSE SetParse("freshStatus", attempts, parsedText, statusData,
                  documentData, 0, Undef, "")

\* status success without a result field: the next result endpoint
ResultEndpoint ==
    /\ parsePc = "resultEndpoint"
    /\ resultCalled' = TRUE
    /\ \/ \E d \in ResultPayloads : ExtractStep(statusData, d)
       \/ EndpointFailed
    /\ UNCHANGED <<mode, filePath, jobId, submitData, polls, lastObserved,
                   priorObserved, uploadSent>>
    /\ UNCHANGED <<sumVars, handlerVars>>
    /\ UNCHANGED eventLoopVars
    /\ UNCHANGED appVars

\* no result endpoint answered: the fresh status check on the primary path
FreshStatus ==
    /\ parsePc = "freshStatus"
    /\ \/ \E d \in ResultPayloads : ExtractStep(statusData, d)
       \/ SetParse("freshLegacy", attempts, parsedText, statusData,
                   documentData, 0, Undef, "")
    /\ resultCalled' = TRUE
    /\ UNCHANGED <<mode, filePath, jobId, submitData, polls,
                   lastObserved, priorObserved, uploadSent>>
    /\ UNCHANGED <<sumVars, handlerVars>>
    /\ UNCHANGED eventLoopVars
    /\ UNCHANGED appVars

\* the fresh status check on the legacy path; statusResponse.data if it fails
FreshLegacy ==
    /\ parsePc = "freshLegacy"
    /\ \/ \E d \in ResultPayloads : ExtractStep(statusData, d)
       \/ ExtractStep(statusData, statusData)
    /\ resultCalled' = TRUE
    /\ UNCHANGED <<mode, filePath, jobId, submitData, polls,
                   lastObserved, priorObserved, uploadSent>>
    /\ UNCHANGED <<sumVars, handlerVars>>
    /\ UNCHANGED eventLoopVars
    /\ UNCHANGED appVars

(***************************************************************************)
(* summarizeWithGemini                                                     *)
(***************************************************************************)
\* const modelNames = ['gemini-1.5-flash', 'gemini-1.5-pro', 'gemini-pro']
modelNames == <<"gemini-1.5-flash", "gemini-1.5-pro", "gemini-pro">>

\* `${value}` in a template literal
ToStr(v) ==
    IF IsString(v) THEN v.s
    ELSE IF v.t = "function" THEN "function " \o v.name \o "() { [native code] }"
    ELSE IF IsObject(v) THEN "[object Object]"
    ELSE "undefined"

\* the prompt: the target language twice, the document text in between
PromptOf(txt, lang) ==
    "Please summarize the following health document in " \o ToStr(lang)
    \o ". Document content: " \o txt
    \o " Please provide the summary in " \o ToStr(lang) \o "."

\* the texts response.text() can give for a model: nothing, or a summary
SdkTexts(m) == {"", "summary by " \o m}

\* the messages of the errors an SDK call can throw
SdkErrors == {"[404 Not Found] models/m is not found for API version v1beta",
              "model not found",
              "[429 Too Many Requests] quota exceeded",
              "[403 Forbidden] API key not valid"}

\* modelError.message.includes('404') || modelError.message.includes('not found')
IsNotFound(message) == Includes(message, "404") \/ Includes(message, "not found")

\* a successful and a failed SDK call, as recorded in sdkCalls
SdkOk(m, t) == [model |-> m, ok |-> TRUE, out |-> t]

SdkFailed(m, message) == [model |-> m, ok |-> FALSE, out |-> message]

\* a JavaScript array as an object with the keys "0", "1", ...
Arr1(v) == Obj(<<KV("0", v)>>)

RestText(t) ==
    Obj(<<KV("candidates",
             Arr1(Obj(<<KV("content",
                           Obj(<<KV("parts", Arr1(Obj(<<KV("text", Str(t))>>)))>>))>>)))>>)

\* answers of the REST endpoint (restResponse.data)
RestPayloads ==
    {RestText("summary by REST"), RestText(""),
     Obj(<<KV("candidates", Obj(<<>>))>>),
     Obj(<<KV("promptFeedback", Obj(<<KV("blockReason", Str("SAFETY"))>>))>>)}

RECURSIVE GetPath(_, _)
\* data?.a?.b?. ... along the keys of path
GetPath(v, path) ==
    IF path = <<>> THEN v ELSE GetPath(Get(v, Head(path)), Tail(path))

\* restResponse.data?.candidates?.[0]?.content?.parts?.[0]?.text
RestTextOf(data) ==
    GetPath(data, <<"candidates", "0", "content", "parts", "0", "text">>)

RestFailedMsg == "Failed to get response from Gemini API"

\* an answered and a failed REST call, as recorded in restCalls
RestOk(p, data) == [prompt |-> p, ok |-> TRUE, out |-> data]

RestFailed(p, e) == [prompt |-> p, ok |-> FALSE, out |-> e]

\* assignment to the frame of summarize
SetSum(pcv, idx, sm, ret, err) ==
    /\ sumPc' = pcv
    /\ modelIdx' = idx
    /\ summary' = sm
    /\ sumReturn' = ret
    /\ sumError' = err

\* return summary
SumReturns(sm) == SetSum("done", 0, sm, sm, "")

\* the error reaches the outer catch, which throws it again
SumThrows(message) == SetSum("done", 0, summary, Undef, message)

\* the REST fallback taken only when summary is still null
AfterModelsNullCheck(sm) ==
    IF sm = Undef THEN SetSum("rest", 0, sm, Undef, "")
    ELSE SumReturns(sm)

\* the code after the for loop up to the REST call
AfterModels(sm) ==
    IF ~Truthy(sm) THEN SetSum("rest", 0, sm, Undef, "")
    ELSE SumReturns(sm)

\* catch (modelError) that goes on to the next candidate after every error
ModelCatchAlwaysContinue(idx, message) ==
    IF idx < Len(modelNames) THEN SetSum("model", idx + 1, summary, Undef, "")
    ELSE AfterModels(summary)

\* catch (modelError) that throws the error of the last candidate
ModelCatchLastThrows(idx, message) ==
    IF IsNotFound(message) /\ idx < Len(modelNames)
    THEN SetSum("model", idx + 1, summary, Undef, "")
    ELSE SumThrows(message)

\* catch (modelError) of the candidate at index idx
ModelCatch(idx, message) ==
    IF IsNotFound(message)
    THEN IF idx < Len(modelNames) THEN SetSum("model", idx + 1, summary, Undef, "")
         ELSE AfterModels(summary)
    ELSE SumThrows(message)

\* the call summarizeWithGemini(txt, lang) up to its first await
StartSummarize(txt, lang) ==
    /\ text' = txt
    /\ targetLanguage' = lang
    /\ prompt' = PromptOf(txt, lang)
    /\ SetSum("model", 1, Undef, Undef, "")

\* summarizeWithGemini(text, targetLanguage) is called
CallSummarize ==
    /\ mode = "idle"
    /\ mode' = "summarize"
    /\ \E txt \in {"hello", ""}, lang \in {Str("Spanish"), Str("Klingon")} :
          StartSummarize(txt, lang)
    /\ UNCHANGED <<sdkCalls, restCalls>>
    /\ UNCHANGED <<parseVars, handlerVars>>
    /\ UNCHANGED eventLoopVars
    /\ UNCHANGED appVars

\* generateContent of the candidate at modelIdx answers or throws
SdkCall ==
    /\ sumPc = "model"
    /\ LET m == modelNames[modelIdx]
       IN \/ \E t \in SdkTexts(m) :
                /\ sdkCalls' = Append(sdkCalls, SdkOk(m, t))
                /\ AfterModels(Str(t))
          \/ \E message \in SdkErrors :
                /\ sdkCalls' = Append(sdkCalls, SdkFailed(m, message))
                /\ ModelCatch(modelIdx, message)
    /\ UNCHANGED <<mode, text, targetLanguage, prompt, restCalls>>
    /\ UNCHANGED <<parseVars, handlerVars>>
    /\ UNCHANGED eventLoopVars
    /\ UNCHANGED appVars

\* the REST fallback answers or fails
RestCall ==
    /\ sumPc = "rest"
    /\ \/ \E e \in Faults :
             /\ restCalls' = Append(restCalls, RestFailed(prompt, e))
             /\ SumThrows(e.message)
       \/ \E data \in RestPayloads :
             /\ restCalls' = Append(restCalls, RestOk(prompt, data))
             /\ IF Truthy(RestTextOf(data)) THEN SumReturns(RestTextOf(data))
                ELSE SumThrows(RestFailedMsg)
    /\ UNCHANGED <<mode, text, targetLanguage, prompt, sdkCalls>>
    /\ UNCHANGED <<parseVars, handlerVars>>
    /\ UNCHANGED eventLoopVars
    /\ UNCHANGED appVars

(***************************************************************************)
(* POST /api/process-document                                              *)
(***************************************************************************)
\* the keys of languageMap; each maps to itself
LanguageNames == {"English", "Spanish", "Chinese (Mandarin)", "Tagalog",
                  "Vietnamese", "Arabic", "French", "Korean", "Russian",
                  "German", "Hindi", "Portuguese", "Italian", "Japanese",
                  "Urdu", "Polish", "Persian", "Turkish", "Greek", "Hebrew"}

\* the function-valued properties languageMap inherits from Object.prototype
InheritedKeys == {"constructor", "toString", "valueOf", "hasOwnProperty"}

\* languageMap[language]
LanguageLookup(language) ==
    IF language \in LanguageNames THEN Str(language)
    ELSE IF language \in InheritedKeys
    THEN [t |-> "function", name |-> (IF language = "constructor" THEN "Object" ELSE language)]
    ELSE Undef

\* const targetLanguage = languageMap[language] || language
TargetLanguageOf(language) == Or2(LanguageLookup(language), Str(language))

\* the files a client uploads (NoFile: the request carries no file)
Uploads == {File(".txt", "hello", TRUE), NoFile}

\* the language field of the request body ("": missing or empty)
Languages == {"", "Spanish", "Klingon", "constructor"}

\* res.status(code).json(body)
ErrorBody(error, message) == [error |-> error, message |-> message]

SuccessBody(sm, lang) == [success |-> TRUE, summary |-> sm, targetLanguage |-> lang]

Respond(code, body) ==
    /\ responses' = Append(responses, [status |-> code, body |-> body])
    /\ handlerPc' = "done"

\* the frame of parse and what was observed of its polling are gone once
\* the caller has taken its result
DropParseFrame ==
    /\ parsePc' = "idle"
    /\ jobId' = Undef
    /\ attempts' = 0
    /\ parsedText' = Str("")
    /\ statusData' = Undef
    /\ documentData' = Undef
    /\ endpointIdx' = 0
    /\ parseReturn' = Undef
    /\ parseError' = ""
    /\ submitData' = Undef
    /\ polls' = 0
    /\ resultCalled' = FALSE
    /\ lastObserved' = "none"
    /\ priorObserved' = "pending"
    /\ UNCHANGED <<filePath, uploadSent>>

\* the language check left out
LanguageMissingSkipped(language) == FALSE

\* if (!language)
LanguageMissing(language) == ~Truthy(Str(language))

\* the request arrives: multer stores the upload, the handler validates
\* the request and calls parseDocumentWithLlamaParse
ReceiveRequest ==
    /\ mode = "idle"
    /\ mode' = "request"
    /\ \E f \in Uploads, language \in Languages :
          /\ reqFile' = f
          /\ reqLanguage' = language
          /\ uploadStored' = f.exists
          /\ IF ~f.exists
             THEN /\ Respond(400, ErrorBody("No file uploaded", ""))
                  /\ UNCHANGED <<filePath, targetLanguage, parsePc>>
             ELSE IF LanguageMissing(language)
             THEN /\ Respond(400, ErrorBody("Language not specified", ""))
                  /\ UNCHANGED <<filePath, targetLanguage, parsePc>>
             ELSE /\ filePath' = MulterStore(f)
                  /\ targetLanguage' = TargetLanguageOf(language)
                  /\ parsePc' = "start"
                  /\ handlerPc' = "parse"
                  /\ UNCHANGED responses
    /\ UNCHANGED handlerParsedText
    /\ UNCHANGED <<jobId, attempts, parsedText, statusData, documentData,
                   endpointIdx, parseReturn, parseError, submitData, polls,
                   resultCalled, lastObserved, priorObserved, uploadSent>>
    /\ UNCHANGED <<sumPc, text, prompt, modelIdx, summary, sumReturn, sumError,
                   sdkCalls, restCalls>>
    /\ UNCHANGED eventLoopVars
    /\ UNCHANGED appVars

\* parse has returned or thrown: the text-file fallback, the blank check
\* and the call of summarizeWithGemini
AfterParse ==
    /\ handlerPc = "parse"
    /\ parsePc = "done"
    /\ DropParseFrame
    /\ LET pt == IF parseError = "" THEN parseReturn ELSE readTextFile(filePath)
       IN IF parseError # "" /\ ~Truthy(pt)
          THEN /\ Respond(500, ErrorBody("Failed to parse document with LlamaParse", parseError))
               /\ UNCHANGED <<handlerParsedText, uploadStored, sumVars>>
          ELSE IF ~Truthy(pt) \/ (IsString(pt) /\ Len(Trim(pt.s)) = 0)
          THEN /\ Respond(500, ErrorBody("Failed to parse document",
                               "No text content extracted from the document"))
               /\ handlerParsedText' = pt
               /\ UNCHANGED <<uploadStored, sumVars>>
          ELSE IF ~IsString(pt)
          THEN \* parsedText.trim is not a function: the outer catch
               /\ Respond(500, ErrorBody("Failed to process document",
                                          "parsedText.trim is not a function"))
               /\ handlerParsedText' = pt
               /\ uploadStored' = FALSE
               /\ UNCHANGED sumVars
          ELSE /\ handlerParsedText' = pt
               /\ handlerPc' = "summarize"
               /\ StartSummarize(pt.s, targetLanguage)
               /\ UNCHANGED <<uploadStored, responses, sdkCalls, restCalls>>
    /\ UNCHANGED <<mode, reqFile, reqLanguage>>
    /\ UNCHANGED eventLoopVars
    /\ UNCHANGED appVars

\* summarize has returned or thrown: the cleanup and the response
AfterSummarize ==
    /\ handlerPc = "summarize"
    /\ sumPc = "done"
    /\ uploadStored' = FALSE
    /\ IF sumError = "" THEN Respond(200, SuccessBody(sumReturn, targetLanguage))
       ELSE Respond(500, ErrorBody("Failed to process document", sumError))
    /\ sumPc' = "idle"
    /\ UNCHANGED <<text, targetLanguage, prompt, modelIdx, summary, sumReturn,
                   sumError, sdkCalls, restCalls>>
    /\ UNCHANGED <<mode, reqFile, reqLanguage, handlerParsedText>>
    /\ UNCHANGED parseVars
    /\ UNCHANGED eventLoopVars
    /\ UNCHANGED appVars

Next ==
    \/ CallParse
    \/ ParseStart
    \/ Upload
    \/ PollPrimary
    \/ PollLegacy
    \/ ResultEndpoint
    \/ FreshStatus
    \/ FreshLegacy
    \/ CallSummarize
    \/ SdkCall
    \/ RestCall
    \/ ReceiveRequest
    \/ AfterParse
    \/ AfterSummarize

Spec == Init /\ [][Next]_vars

\* every await settles: a call that is under way returns or fails, and the
\* code after it runs
FairSpec == Spec /\ WF_vars(Next)

(***************************************************************************)
(* The extraction chain on its own: every payload shape, one application   *)
(***************************************************************************)
\* strings of 101 and of 110 characters
Text101 == Text100 \o "x"

Text110 == Text100 \o T10

\* response trees without a recognized field: strings at the threshold
\* length, long strings at several depths and in several key orders
Trees ==
    {<<KV("note", Str(Text100)), KV("job", Obj(<<KV("output", Str(Text101))>>))>>,
     <<KV("job", Obj(<<KV("id", Str("j-1")), KV("output", Str(Text110))>>)),
       KV("note", Str(Text150))>>,
     <<KV("note", Str(Text150)),
       KV("job", Obj(<<KV("output", Str(Text110))>>))>>,
     <<KV("job", Obj(<<KV("meta", Obj(<<KV("note", Str(Text100))>>)),
                       KV("pages", Obj(<<KV("md", Str(Text150))>>))>>)),
       KV("note", Str(Text110))>>,
     <<KV("job", Obj(<<KV("id", Str("j-1")), KV("note", Str(Text100))>>)),
       KV("pages", Obj(<<>>))>>}

ExtractInputs ==
    {Obj(<<KV("status", Str("success"))>> \o b) : b \in Bodies \cup Trees}
    \cup ResultPayloads

InitExtract ==
    /\ mode = "extract"
    /\ parsePc = "extract"
    /\ documentData \in ExtractInputs
    /\ InitFrames
    /\ active = 1
    /\ suspended = Undef
    /\ InitApp

\* parsedText is assigned from documentData
ApplyExtract ==
    /\ parsePc = "extract"
    /\ parsePc' = "extracted"
    /\ parsedText' = Extract(documentData)
    /\ UNCHANGED <<mode, filePath, jobId, attempts, statusData, documentData,
                   endpointIdx, parseReturn, parseError, submitData, polls,
                   resultCalled, lastObserved, priorObserved, uploadSent>>
    /\ UNCHANGED <<sumVars, handlerVars>>
    /\ UNCHANGED eventLoopVars
    /\ UNCHANGED appVars

NextExtract == ApplyExtract

SpecExtract == InitExtract /\ [][NextExtract]_vars


(***************************************************************************)
(* Two requests in the event loop: every action above is the code of one   *)
(* request between two awaits; at an await the other request may run       *)
(***************************************************************************)
\* what a request owns: the locals of its handler, parse and summarize
\* invocations, its req and res, its upload, and what the remote services
\* saw of it
Frame ==
    [mode |-> mode,
     parsePc |-> parsePc,
     filePath |-> filePath,
     jobId |-> jobId,
     attempts |-> attempts,
     parsedText |-> parsedText,
     statusData |-> statusData,
     documentData |-> documentData,
     endpointIdx |-> endpointIdx,
     parseReturn |-> parseReturn,
     parseError |-> parseError,
     submitData |-> submitData,
     polls |-> polls,
     resultCalled |-> resultCalled,
     lastObserved |-> lastObserved,
     priorObserved |-> priorObserved,
     uploadSent |-> uploadSent,
     sumPc |-> sumPc,
     text |-> text,
     targetLanguage |-> targetLanguage,
     prompt |-> prompt,
     modelIdx |-> modelIdx,
     summary |-> summary,
     sumReturn |-> sumReturn,
     sumError |-> sumError,
     sdkCalls |-> sdkCalls,
     restCalls |-> restCalls,
     handlerPc |-> handlerPc,
     reqFile |-> reqFile,
     reqLanguage |-> reqLanguage,
     handlerParsedText |-> handlerParsedText,
     uploadStored |-> uploadStored,
     responses |-> responses]

\* the waiting request runs again with its own locals, attempts apart
ResumeLocals(f) ==
    /\ mode' = f.mode
    /\ parsePc' = f.parsePc
    /\ filePath' = f.filePath
    /\ jobId' = f.jobId
    /\ parsedText' = f.parsedText
    /\ statusData' = f.statusData
    /\ documentData' = f.documentData
    /\ endpointIdx' = f.endpointIdx
    /\ parseReturn' = f.parseReturn
    /\ parseError' = f.parseError
    /\ submitData' = f.submitData
    /\ polls' = f.polls
    /\ resultCalled' = f.resultCalled
    /\ lastObserved' = f.lastObserved
    /\ priorObserved' = f.priorObserved
    /\ uploadSent' = f.uploadSent
    /\ sumPc' = f.sumPc
    /\ text' = f.text
    /\ targetLanguage' = f.targetLanguage
    /\ prompt' = f.prompt
    /\ modelIdx' = f.modelIdx
    /\ summary' = f.summary
    /\ sumReturn' = f.sumReturn
    /\ sumError' = f.sumError
    /\ sdkCalls' = f.sdkCalls
    /\ restCalls' = f.restCalls
    /\ handlerPc' = f.handlerPc
    /\ reqFile' = f.reqFile
    /\ reqLanguage' = f.reqLanguage
    /\ handlerParsedText' = f.handlerParsedText
    /\ uploadStored' = f.uploadStored
    /\ responses' = f.responses

\* attempts kept in one place for both requests
ResumeSharedAttempts(f) == ResumeLocals(f) /\ UNCHANGED attempts

\* the waiting request runs again; let attempts = 0 is a local of parse
Resume(f) == ResumeLocals(f) /\ attempts' = f.attempts

\* the request that runs reaches an await and the other one runs
Switch ==
    /\ suspended # Undef
    /\ suspended' = Frame
    /\ active' = 3 - active
    /\ Resume(suspended)
    /\ UNCHANGED appVars

\* The remote services answer a request by its own job and calls alone:
\* job j-1 is pending at the first status query, its second query fails on
\* the primary path and is pending on the legacy path, and its third one
\* reports success with a markdown; any other job stays pending.
ScriptedSuccess == Obj(<<KV("status", Str("success")), KV("markdown", Str("MD"))>>)

ScriptedPollPrimary ==
    /\ PollPrimary
    /\ IF jobId = Str("j-1") /\ polls' = 2 THEN lastObserved' = "primaryFault"
       ELSE IF jobId = Str("j-1") /\ polls' = 3
       THEN lastObserved' = "success" /\ statusData' = ScriptedSuccess
       ELSE lastObserved' = "pending"

ScriptedPollLegacy ==
    /\ PollLegacy
    /\ lastObserved' = "pending"

\* the first candidate model is not found, the second one answers
ScriptedSdkCalls ==
    <<SdkFailed(modelNames[1], "model not found"),
      SdkOk(modelNames[2], "summary by " \o modelNames[2])>>

ScriptedSdkCall ==
    /\ SdkCall
    /\ sdkCalls' = SubSeq(ScriptedSdkCalls, 1, Len(sdkCalls'))

InitTwo ==
    /\ mode = "idle"
    /\ parsePc = "idle"
    /\ documentData = Undef
    /\ InitFrames
    /\ active = 1
    /\ suspended = Frame
    /\ InitApp

NextTwo ==
    \/ ReceiveRequest
    \/ ParseStart
    \/ Upload
    \/ ScriptedPollPrimary
    \/ ScriptedPollLegacy
    \/ AfterParse
    \/ ScriptedSdkCall
    \/ AfterSummarize
    \/ Switch

SpecTwo == InitTwo /\ [][NextTwo]_vars


(***************************************************************************)
(* The status test of a poll iteration on its own: every casing            *)
(***************************************************************************)
\* statusResponse.data: the status in several letter casings, or not a
\* status at all, with and without a result field
StatusInputs ==
    {Obj(st \o b) :
        st \in {<<KV("status", Str(s))>> :
                  s \in {"success", "SUCCESS", "Success", "sUCCESS",
                         "error", "ERROR", "Error", "eRROR",
                         "pending", "PENDING", "Pending", "pENDING",
                         "processing", "PROCESSING", "succes", ""}}
               \cup {<<>>},
        b \in {<<>>, <<KV("markdown", Str("MD"))>>, <<KV("text", Str("TX"))>>,
               <<KV("message", Str("quota"))>>}}

\* the status query of an iteration is answered
StatusArrives ==
    /\ mode = "idle"
    /\ mode' = "status"
    /\ parsePc' = "status"
    /\ \E d \in StatusInputs : statusData' = d
    /\ UNCHANGED <<filePath, jobId, attempts, parsedText, documentData,
                   endpointIdx, parseReturn, parseError, submitData, polls,
                   resultCalled, lastObserved, priorObserved, uploadSent>>
    /\ UNCHANGED <<sumVars, handlerVars, eventLoopVars, appVars>>

\* the if/else-if chain on statusResponse.data.status picks its branch
ClassifyStatus ==
    /\ parsePc = "status"
    /\ parsePc' = "classified"
    /\ lastObserved' = StatusKind(statusData)
    /\ UNCHANGED <<mode, filePath, jobId, attempts, parsedText, statusData,
                   documentData, endpointIdx, parseReturn, parseError,
                   submitData, polls, resultCalled, priorObserved, uploadSent>>
    /\ UNCHANGED <<sumVars, handlerVars, eventLoopVars, appVars>>

NextStatus ==
    \/ StatusArrives
    \/ ClassifyStatus

SpecStatus == Init /\ [][NextStatus]_vars


(***************************************************************************)
(* Properties                                                              *)
(***************************************************************************)
\* the errors parse throws, by kind
JobFailedError(d) == WrapParseError(Error(JobFailedMsg(d)))

TimeoutError == WrapParseError(Error(TimeoutMsg))

TransientError == WrapParseError(Error(NotFoundMsg))

NoJobIdError(data) == WrapParseError(Error(NoJobIdMsg(data)))

\* a non-empty string
IsText(v) == IsString(v) /\ v.s # ""

\* C1: once a status poll has reported `error`, parse has failed with
\* JobFailed carrying the remote error/message, and nothing more is polled.
C1_ErrorFailsImmediately ==
    lastObserved = "error" =>
        /\ parsePc = "done"
        /\ parseReturn = Undef
        /\ parseError = JobFailedError(statusData)

\* C2: when all maxAttempts polls reported `pending`, and whenever the
\* attempt budget is used up, parse ends in Timeout and returns nothing.
C2_PendingForeverTimesOut ==
    /\ (/\ parsePc = "done"
        /\ polls = maxAttempts
        /\ priorObserved = "pending"
        /\ lastObserved = "pending")
       => (parseError = TimeoutError /\ parseReturn = Undef)
    /\ (parsePc = "done" /\ attempts >= maxAttempts)
       => (parseError = TimeoutError /\ parseReturn = Undef)

C2_Witness ==
    /\ parsePc = "done"
    /\ polls = maxAttempts
    /\ priorObserved = "pending"
    /\ lastObserved = "pending"
    /\ parseError = TimeoutError

\* C3: when the polls before the latest all reported `pending` and the
\* latest reports `success` with a non-empty markdown, parse has returned
\* exactly that markdown, with no poll after that one and no other call.
C3_PendingThenMarkdown ==
    (/\ lastObserved = "success"
     /\ priorObserved = "pending"
     /\ Get(statusData, "status") = Str("success")
     /\ IsText(Get(statusData, "markdown")))
    => /\ parsePc = "done"
       /\ parseError = ""
       /\ parseReturn = Get(statusData, "markdown")
       /\ polls = attempts + 1
       /\ ~resultCalled

C3_Witness ==
    /\ lastObserved = "success"
    /\ priorObserved = "pending"
    /\ Get(statusData, "status") = Str("success")
    /\ attempts = maxAttempts - 1
    /\ polls = maxAttempts
    /\ parseReturn = Str("MD")

\* the recognized fields in their precedence order
Precedence == <<"markdown", "text", "content", "parsed_content",
                "result", "data", "document">>

\* the text a recognized field holds: its own string value, or for a
\* mapping the first of its markdown, text, content
TextOfField(v) ==
    IF IsString(v) THEN v
    ELSE IF IsText(Get(v, "markdown")) THEN Get(v, "markdown")
    ELSE IF IsText(Get(v, "text")) THEN Get(v, "text")
    ELSE IF IsText(Get(v, "content")) THEN Get(v, "content")
    ELSE Str("")

HoldsText(d, i) == IsText(TextOfField(Get(d, Precedence[i])))

\* C4: when a recognized field holds text, extraction gives the text of
\* the first such field in the precedence order.
C4_FirstFieldWins ==
    (parsePc = "extracted" /\ \E i \in 1..Len(Precedence) : HoldsText(documentData, i))
    => LET first == CHOOSE i \in 1..Len(Precedence) :
                       /\ HoldsText(documentData, i)
                       /\ \A j \in 1..(i - 1) : ~HoldsText(documentData, j)
       IN parsedText = TextOfField(Get(documentData, Precedence[first]))

\* C5: when the upload answer has neither `id` nor `job_id`, parse has
\* failed with NoJobId and no poll or result call was ever made.
C5_NoJobIdFailsAtOnce ==
    (/\ submitData # Undef
     /\ ~HasKey(submitData, "id")
     /\ ~HasKey(submitData, "job_id"))
    => /\ parsePc = "done"
       /\ parseReturn = Undef
       /\ parseError = NoJobIdError(submitData)
       /\ polls = 0
       /\ ~resultCalled

C5_Witness ==
    /\ submitData = Obj(<<KV("status", Str("PENDING"))>>)
    /\ parsePc = "done"
    /\ parseError = NoJobIdError(submitData)

\* C6: a fault of the status query other than not-found is absorbed: the
\* iteration is counted and the loop goes on (to the next poll, or to
\* Timeout when it was the last); a not-found fault ends parse with Transient.
C6_FaultsAbsorbedExceptNotFound ==
    /\ lastObserved = "fault" =>
          \/ parsePc = "poll" /\ attempts = polls /\ parseError = ""
          \/ /\ parsePc = "done"
             /\ attempts = maxAttempts
             /\ parseError = TimeoutError
    /\ lastObserved = "fault404" =>
          /\ parsePc = "done"
          /\ parseReturn = Undef
          /\ parseError = TransientError
          /\ attempts = polls - 1

C6_Witness ==
    /\ lastObserved = "fault404"
    /\ priorObserved = "mixed"
    /\ parsePc = "done"
    /\ parseError = TransientError

\* C7: a finished parse has either returned a text or thrown an error, a
\* finished summarize has either returned a summary or thrown an error,
\* never both and never neither; a running one has done neither.
C7_ExactlyOneOutcome ==
    /\ parsePc = "done" =>
          \/ IsText(parseReturn) /\ parseError = ""
          \/ parseReturn = Undef /\ parseError # ""
    /\ parsePc \notin {"done", "idle"} => (parseReturn = Undef /\ parseError = "")
    /\ sumPc = "done" =>
          \/ IsText(sumReturn) /\ sumError = ""
          \/ sumReturn = Undef /\ sumError # ""
    /\ sumPc \in {"model", "rest"} => (sumReturn = Undef /\ sumError = "")

C7_Witness ==
    /\ mode = "request"
    /\ parsePc = "idle"
    /\ sumPc = "done"
    /\ IsText(sumReturn)
    /\ restCalls # <<>>

\* C8: the candidates are called in the order of modelNames, and a
\* candidate call that succeeded is the last call of the chain: no later
\* candidate and no REST fallback is called.
C8_StopsAtFirstSuccess ==
    /\ Len(sdkCalls) <= Len(modelNames)
    /\ \A i \in 1..Len(sdkCalls) :
          /\ sdkCalls[i].model = modelNames[i]
          /\ sdkCalls[i].ok => (i = Len(sdkCalls) /\ restCalls = <<>>)

\* C9: when a candidate failed with a not-found error and the next one
\* succeeded, summarize returns the output of that one and throws nothing.
C9_NextCandidateOutputReturned ==
    (/\ sumPc = "done"
     /\ \E i \in 1..(Len(sdkCalls) - 1) :
           /\ ~sdkCalls[i].ok
           /\ IsNotFound(sdkCalls[i].out)
           /\ sdkCalls[i + 1].ok)
    => /\ sumError = ""
       /\ sumReturn = Str(sdkCalls[Len(sdkCalls)].out)

\* C10: a candidate that failed with an error not of the not-found class
\* is the last call of the chain, no REST fallback is called, and
\* summarize throws that error.
C10_OtherErrorAborts ==
    \A i \in 1..Len(sdkCalls) :
        (~sdkCalls[i].ok /\ ~IsNotFound(sdkCalls[i].out))
        => /\ i = Len(sdkCalls)
           /\ restCalls = <<>>
           /\ sumPc \in {"done", "idle"}
           /\ sumReturn = Undef
           /\ sumError = sdkCalls[i].out

C10_Witness ==
    /\ Len(sdkCalls) = 2
    /\ ~sdkCalls[1].ok
    /\ IsNotFound(sdkCalls[1].out)
    /\ ~sdkCalls[2].ok
    /\ sdkCalls[2].out = "[429 Too Many Requests] quota exceeded"
    /\ sumPc = "done"

\* every listed candidate was called and failed with a not-found error
AllNotFound ==
    /\ Len(sdkCalls) = Len(modelNames)
    /\ \A i \in 1..Len(sdkCalls) : ~sdkCalls[i].ok /\ IsNotFound(sdkCalls[i].out)

\* C11: when every listed candidate failed with a not-found error, the
\* REST fallback is called exactly once, with the prompt of the invocation;
\* summarize returns the text field of its answer when that is a non-empty
\* text, and throws when the call failed or the answer has no such text.
C11_RestFallbackOnce ==
    AllNotFound =>
        \/ sumPc = "rest" /\ restCalls = <<>>
        \/ /\ sumPc \in {"done", "idle"}
           /\ Len(restCalls) = 1
           /\ restCalls[1].prompt = PromptOf(text, targetLanguage)
           /\ IF restCalls[1].ok /\ IsText(RestTextOf(restCalls[1].out))
              THEN sumReturn = RestTextOf(restCalls[1].out) /\ sumError = ""
              ELSE sumReturn = Undef /\ sumError # ""

C11_Witness ==
    /\ AllNotFound
    /\ sumPc = "done"
    /\ Len(restCalls) = 1
    /\ sumReturn = Str("summary by REST")
    /\ sumError = ""

\* C12: once parse has looked at an existing file whose path has the
\* extension .txt in any letter case, it has returned the contents of the
\* file, the empty contents included, and no upload, status poll or result
\* call was made.
C12_TextFileBypassesParser ==
    (/\ parsePc \notin {"idle", "start"}
     /\ ToLowerCaseExt(filePath.ext) = ".txt"
     /\ filePath.exists)
    => /\ parsePc = "done"
       /\ parseError = ""
       /\ parseReturn = Str(filePath.content)
       /\ ~uploadSent
       /\ submitData = Undef
       /\ polls = 0
       /\ ~resultCalled

\* C13: when a request that uploaded a file has been answered, the upload
\* is no longer in uploads/, whatever the response.
C13_UploadRemovedAtResponse ==
    (reqFile.exists /\ responses # <<>>) => ~uploadStored

\* what a request does when it is the only one, told from its frame f: how
\* parse ends for the upload answer and the job it got, with how many
\* status queries, and which response and which summarize calls follow
AloneOutcome(f) ==
    /\ (f.parsePc = "poll") => (f.polls = f.attempts /\ f.polls < maxAttempts)
    /\ (f.parsePc = "done") =>
          IF f.submitData = Undef
          THEN /\ \E e \in Faults : f.parseError = WrapParseError(e)
               /\ f.polls = 0
          ELSE IF MissingJobId(f.submitData)
          THEN f.parseError = NoJobIdError(f.submitData) /\ f.polls = 0
          ELSE IF f.jobId = Str("j-1")
          THEN /\ f.parseError = ""
               /\ f.parseReturn = Str("MD")
               /\ f.polls = 3
               /\ f.attempts = 2
          ELSE /\ f.parseError = TimeoutError
               /\ f.parseReturn = Undef
               /\ f.polls = maxAttempts
               /\ f.attempts = maxAttempts
    /\ (f.handlerPc = "done") =>
          /\ Len(f.responses) = 1
          /\ IF ~f.reqFile.exists
             THEN f.responses[1] = [status |-> 400, body |-> ErrorBody("No file uploaded", "")]
             ELSE IF f.reqLanguage = ""
             THEN f.responses[1] = [status |-> 400, body |-> ErrorBody("Language not specified", "")]
             ELSE IF f.handlerParsedText = Str("MD")
             THEN /\ f.responses[1] =
                        [status |-> 200,
                         body |-> SuccessBody(Str("summary by " \o modelNames[2]),
                                              TargetLanguageOf(f.reqLanguage))]
                  /\ f.sdkCalls = ScriptedSdkCalls
                  /\ f.restCalls = <<>>
             ELSE /\ f.responses[1].status = 500
                  /\ f.responses[1].body.error = "Failed to parse document with LlamaParse"
                  /\ \/ f.responses[1].body.message = TimeoutError
                     \/ \E e \in Faults : f.responses[1].body.message = WrapParseError(e)
                     \/ \E data \in SubmitPayloads :
                           f.responses[1].body.message = NoJobIdError(data)
                  /\ f.sdkCalls = <<>>
                  /\ f.restCalls = <<>>

\* C14: under every interleaving of two requests at their awaits, each
\* request polls, ends and answers exactly as it does alone with the same
\* remote answers.
C14_RequestsIndependent ==
    AloneOutcome(Frame) /\ AloneOutcome(suspended)

C14_Witness ==
    /\ parsePc = "done"
    /\ parseError = TimeoutError
    /\ polls = maxAttempts
    /\ suspended.parsePc = "poll"
    /\ suspended.jobId = Str("j-1")
    /\ suspended.polls = 2
    /\ suspended.handlerPc = "parse"

\* C15: in a request that uploaded a .txt document, once parse has looked
\* at the stored upload no upload to LlamaParse and no status query is made,
\* and the text the handler goes on with is the contents of the document.
C15_TextUploadReadDirectly ==
    (/\ mode = "request"
     /\ ToLowerCaseExt(reqFile.ext) = ".txt"
     /\ reqFile.exists
     /\ reqLanguage # ""
     /\ parsePc # "start")
    => /\ ~uploadSent
       /\ submitData = Undef
       /\ polls = 0
       /\ handlerPc \in {"summarize", "done"}
       /\ handlerParsedText = Str(reqFile.content)

\* the lower-case letter of an upper-case letter of the status strings
UpperToLower ==
    [c \in {"S", "U", "C", "E", "R", "O", "P", "N", "D", "I", "G"} |->
        CASE c = "S" -> "s" [] c = "U" -> "u" [] c = "C" -> "c"
          [] c = "E" -> "e" [] c = "R" -> "r" [] c = "O" -> "o"
          [] c = "P" -> "p" [] c = "N" -> "n" [] c = "D" -> "d"
          [] c = "I" -> "i" [] c = "G" -> "g"]

RECURSIVE LowerCase(_)
LowerCase(s) ==
    IF s = "" THEN ""
    ELSE LET c == SubSeq(s, 1, 1)
         IN (IF c \in DOMAIN UpperToLower THEN UpperToLower[c] ELSE c)
            \o LowerCase(SubSeq(s, 2, Len(s)))

\* the status of an answer, compared without regard to letter case
NormalizedKind(d) ==
    LET st == Get(d, "status")
    IN IF IsString(st) /\ LowerCase(st.s) \in {"success", "error", "pending"}
       THEN LowerCase(st.s)
       ELSE "unknown"

\* C16: the branch the status test takes is the one of the status string
\* compared case-insensitively: success, error, pending, else unknown.
C16_StatusCaseInsensitive ==
    parsePc = "classified" => lastObserved = NormalizedKind(statusData)

\* C17: a poll iteration that observed status success is the last one:
\* parse is resolving the result in that iteration or has finished, and
\* never stands before another status query.
C17_SuccessIsTerminal ==
    lastObserved = "success" =>
        parsePc \in {"resultEndpoint", "freshStatus", "freshLegacy", "done"}

\* C18: a status query that failed on the primary path, not-found
\* included, is followed in the same iteration by the query on the legacy
\* path; only a failure of that one makes the iteration a failed one, and
\* when the legacy path answers pending, success or an unknown status,
\* parse goes on as after an answer of the primary path: it ends at most
\* with its result or, the budget used up, with Timeout.
C18_LegacyAfterPrimaryFailure ==
    [][/\ lastObserved' \in {"primary404", "primaryFault"} =>
             /\ parsePc' = "pollLegacy"
             /\ attempts' = polls' - 1
             /\ parseError' = ""
             /\ parseReturn' = Undef
       /\ (lastObserved' \in {"fault", "fault404"} /\ lastObserved' # lastObserved) =>
             parsePc = "pollLegacy"
       /\ parsePc = "pollLegacy" =>
             /\ polls' = polls
             /\ lastObserved \in {"primary404", "primaryFault"}
             /\ lastObserved' \in {"pending", "success", "unknown"} =>
                   /\ parsePc' \in {"poll", "resultEndpoint", "done"}
                   /\ parseError' \in {"", TimeoutError}
                   /\ parseError' = TimeoutError => attempts' = maxAttempts
      ]_vars

C18_Witness ==
    /\ parsePc = "pollLegacy"
    /\ lastObserved = "primary404"
    /\ priorObserved = "mixed"
    /\ polls = maxAttempts
    /\ attempts = maxAttempts - 1

\* C19: after a poll iteration that observed pending or an unknown status
\* parse stands before the next iteration with no error, or, the budget
\* used up, has failed with Timeout; so it is when every iteration so far
\* observed pending or unknown statuses only.
C19_PendingUnknownNeverRaise ==
    lastObserved \in {"pending", "unknown"} =>
        \/ /\ parsePc = "poll"
           /\ parseError = ""
           /\ parseReturn = Undef
           /\ attempts = polls
           /\ attempts < maxAttempts
        \/ /\ parsePc = "done"
           /\ parseError = TimeoutError
           /\ parseReturn = Undef
           /\ attempts = maxAttempts
           /\ polls = maxAttempts

C19_Witness ==
    /\ parsePc = "done"
    /\ parseError = TimeoutError
    /\ priorObserved = "transient"
    /\ lastObserved = "unknown"
    /\ polls = maxAttempts

\* C20: a result endpoint is called only in an iteration that observed
\* success with a status payload that is no string and has none of the
\* recognized fields markdown, text, content, parsed_content, result, data,
\* document; the endpoint called is one of the six listed ones.
C20_ResultEndpointsOnlyWithoutFields ==
    parsePc = "resultEndpoint" =>
        /\ lastObserved = "success"
        /\ endpointIdx \in 1..NumResultEndpoints
        /\ ~IsString(statusData)
        /\ \A i \in 1..Len(Precedence) : ~Truthy(Get(statusData, Precedence[i]))

\* a payload that is a string or has a recognized field
Recognized(d) ==
    \/ IsString(d)
    \/ \E i \in 1..Len(Precedence) : Truthy(Get(d, Precedence[i]))

\* C21: extraction is not applied to the answer of a result endpoint that
\* has no recognized field: parse returns out of the result endpoints only
\* with a payload that has one.
C21_RefetchBeforeUnstructured ==
    [][(parsePc = "resultEndpoint" /\ parsePc' = "done" /\ parseError' = "")
       => Recognized(documentData')]_vars

\* parse has returned the extraction of a payload out of ds, or the
\* iteration was the last one and found no text
ResolvedFrom(ds) ==
    \/ /\ parseError' = ""
       /\ documentData' \in ds
       /\ parseReturn' = Extract(documentData')
    \/ /\ parseError' = TimeoutError
       /\ attempts' = maxAttempts

\* C21, amended: the first result endpoint that answers ends the retrieval
\* and extraction is applied to its answer, whatever its shape; the fresh
\* status check is made once, only after all six endpoints failed, on the
\* primary path and on the legacy path if that fails; when both fail
\* extraction is applied to the status payload.
C21_RefetchAfterAllEndpointsFailed ==
    [][/\ (parsePc = "resultEndpoint" /\ parsePc' = "freshStatus") =>
             /\ endpointIdx = NumResultEndpoints
             /\ documentData' = statusData
       /\ (parsePc = "resultEndpoint" /\ parsePc' = "done") =>
             ResolvedFrom(ResultPayloads)
       /\ parsePc = "freshStatus" =>
             /\ parsePc' \in {"freshLegacy", "poll", "done"}
             /\ polls' = polls
             /\ parsePc' = "done" => ResolvedFrom(ResultPayloads)
       /\ parsePc = "freshLegacy" =>
             /\ parsePc' \in {"poll", "done"}
             /\ polls' = polls
             /\ parsePc' = "done" => ResolvedFrom(ResultPayloads \cup {statusData})
      ]_vars

C21_Witness ==
    /\ parsePc = "done"
    /\ statusData = Obj(<<KV("status", Str("success"))>>)
    /\ documentData = statusData
    /\ resultCalled
    /\ parseReturn = Str(JSONStringify(statusData))

\* C22: when the first recognized field present is result, data or
\* document and it is a mapping holding a text under markdown, text or
\* content, extraction gives the first of these three, the same way for
\* the three containers.
C22_OneLevelRecursion ==
    parsePc = "extracted" =>
        \A i \in 5..Len(Precedence) :
            LET c == Get(documentData, Precedence[i])
            IN (/\ IsObject(c)
                /\ \A j \in 1..(i - 1) : ~Truthy(Get(documentData, Precedence[j]))
                /\ IsText(TextOfField(c)))
               => parsedText = TextOfField(c)

RECURSIVE Leaves(_)
RECURSIVE LeavesFrom(_, _)
\* the string values of a response tree, in depth-first key order
LeavesFrom(kv, i) ==
    IF i > Len(kv) THEN <<>>
    ELSE Leaves(kv[i].v) \o LeavesFrom(kv, i + 1)

Leaves(v) ==
    IF IsString(v) THEN <<v>>
    ELSE IF IsObject(v) THEN LeavesFrom(v.kv, 1)
    ELSE <<>>

\* the leaves of more than 100 characters, in the same order
LongLeaves(v) == SelectSeq(Leaves(v), LAMBDA leaf : Len(leaf.s) > 100)

C24_DegradedModeReturnsSerialization ==
    (/\ parsePc = "done"
     /\ lastObserved = "success"
     /\ IsObject(documentData)
     /\ ~Recognized(documentData)
     /\ LongLeaves(documentData) = <<>>)
    => /\ parseError = ""
       /\ parseReturn = Str(JSONStringify(documentData))
       /\ parseReturn.s # ""

C24_Witness ==
    /\ parsePc = "done"
    /\ lastObserved = "success"
    /\ statusData = Obj(<<KV("status", Str("success"))>>)
    /\ documentData = Obj(<<>>)
    /\ parseReturn = Str("{}")
    /\ attempts = maxAttempts - 1

\* C25: in a request that reached summarize, the target language summarize
\* was called with is the language string of the request, and the prompt
\* names that language.
C25_LanguagePassesThrough ==
    (mode = "request" /\ handlerPc \in {"summarize", "done"} /\ prompt # "")
    => /\ targetLanguage = Str(reqLanguage)
       /\ prompt = PromptOf(text, Str(reqLanguage))

\* C26: the number of poll iterations never exceeds maxAttempts; attempts
\* counts the iterations that ended without leaving the loop, one each,
\* and never decreases while parse runs; and every parse that was called
\* ends, each call under way returning or failing.
C26_ParseTerminates ==
    /\ [](/\ polls <= maxAttempts
          /\ attempts <= maxAttempts
          /\ parsePc = "poll" => (attempts = polls /\ attempts < maxAttempts)
          /\ parsePc \in {"pollLegacy", "resultEndpoint", "freshStatus", "freshLegacy"}
                => attempts = polls - 1)
    /\ [][/\ (parsePc' = "poll" /\ parsePc # "upload") => attempts' = attempts + 1
          /\ (parsePc \notin {"idle", "done"} /\ attempts' # attempts)
                => attempts' = attempts + 1]_vars
    /\ (parsePc = "start") ~> (parsePc = "done")

C26_Witness ==
    /\ parsePc = "done"
    /\ polls = maxAttempts
    /\ attempts = maxAttempts - 1
    /\ lastObserved = "success"
    /\ priorObserved = "mixed"
    /\ parseError = ""

NoTextError == WrapParseError(Error(NoTextMsg))

\* C27: parse never fails with 'No text extracted from document', in a
\* request no response carries that message, a parse that returned has
\* returned a non-empty text, and the loop left with no text means the
\* attempts are used up and Timeout.
C27_NoTextUnreachable ==
    /\ parseError # NoTextError
    /\ \A i \in 1..Len(responses) :
          responses[i].status = 500 => responses[i].body.message # NoTextError
    /\ (parsePc = "done" /\ parseError = "") =>
          /\ IsText(parseReturn)
          /\ polls > 0 => parseReturn = parsedText
    /\ (parsePc = "done" /\ polls > 0 /\ ~Truthy(parsedText)) =>
          \/ parseError = TimeoutError /\ attempts = maxAttempts
          \/ parseError = TransientError /\ attempts < maxAttempts

C27_Witness ==
    /\ parsePc = "done"
    /\ lastObserved = "success"
    /\ parsedText = Str("")
    /\ parseError = TimeoutError
    /\ attempts = maxAttempts

\* a string of white space only, the empty one included
IsBlank(s) == \A i \in 1..Len(s) : SubSeq(s, i, i) \in WhiteSpace

\* the handler has a text to summarize: a string that is not blank
HasTextToSummarize(v) == IsString(v) /\ ~IsBlank(v.s)

\* C28: in a request, summarize is called only when parse has returned a
\* text that is not blank, and with that text; when parse failed or gave a
\* blank text the response is a 500 and no call of the summarization
\* service was made.
C28_SummarizeOnlyAfterText ==
    /\ [](mode = "request" =>
            /\ (sumPc # "idle" \/ prompt # "" \/ sdkCalls # <<>> \/ restCalls # <<>>)
                  => (HasTextToSummarize(handlerParsedText)
                      /\ text = handlerParsedText.s)
            /\ (handlerPc = "done" /\ reqFile.exists /\ reqLanguage # ""
                /\ ~HasTextToSummarize(handlerParsedText))
                  => /\ Len(responses) = 1
                     /\ responses[1].status = 500
                     /\ sdkCalls = <<>>
                     /\ restCalls = <<>>
                     /\ sumPc = "idle")
    /\ [][(handlerPc = "parse" /\ handlerPc' = "summarize")
             => /\ parsePc = "done"
                /\ parseError = ""
                /\ HasTextToSummarize(parseReturn)
                /\ text' = parseReturn.s
          ]_vars
    /\ [][(handlerPc = "parse" /\ parsePc = "done" /\ handlerPc' # "parse"
           /\ (parseError # "" \/ ~HasTextToSummarize(parseReturn)))
             => /\ handlerPc' = "done"
                /\ responses' = <<[status |-> 500, body |-> responses'[1].body]>>
                /\ sumPc' = "idle"
          ]_vars

C28_Witness ==
    /\ mode = "request"
    /\ handlerPc = "done"
    /\ handlerParsedText = Str("  \n")
    /\ responses[1].status = 500
    /\ sdkCalls = <<>>

\* C29: a request without a file or without a language is answered 400
\* with no upload to the parsing service, no status query and no
\* summarization call; no request gets a second response, a response is a
\* 200, a 400 or a 500, and every request gets its response.
C29_RejectedEarlyOneResponse ==
    /\ []((mode = "request" /\ (~reqFile.exists \/ reqLanguage = "")) =>
            /\ handlerPc = "done"
            /\ Len(responses) = 1
            /\ responses[1].status = 400
            /\ parsePc = "idle"
            /\ ~uploadSent
            /\ polls = 0
            /\ sumPc = "idle"
            /\ sdkCalls = <<>>
            /\ restCalls = <<>>)
    /\ [](/\ Len(responses) <= 1
          /\ (handlerPc = "done") <=> (Len(responses) = 1)
          /\ \A i \in 1..Len(responses) : responses[i].status \in {200, 400, 500})
    /\ (mode = "request") ~> (Len(responses) = 1)

C29_Witness ==
    /\ mode = "request"
    /\ reqFile.exists
    /\ reqLanguage = ""
    /\ responses = <<[status |-> 400, body |-> ErrorBody("Language not specified", "")]>>

(***************************************************************************)
(* The front-end App component: the state of its useState hooks, the       *)
(* event handlers of its file input, language list and submit button, and  *)
(* the continuation of handleSubmit after its fetch.                       *)
(***************************************************************************)
\* the handleSubmit calls that may wait at their fetch at one time
MaxInFlight == 2

\* event.target.files[0]: undefined when the chooser is closed without a file
ChosenFiles ==
    {Undef, Obj(<<KV("name", Str("scan.pdf"))>>),
     Obj(<<KV("name", Str("notes.txt"))>>)}

\* the entries of the languages list
AppLanguages == {"Spanish", "French"}

\* how the fetch of handleSubmit ends: rejected (network), or a response
\* with its ok flag, status line and body (json: the body parses as JSON)
FetchOutcomes ==
    {[kind |-> "network", ok |-> FALSE, status |-> "", statusText |-> m,
      json |-> FALSE, data |-> Undef] : m \in {"Failed to fetch", "Load failed"}}
    \cup
    {[kind |-> "response", ok |-> TRUE, status |-> "200", statusText |-> "OK",
      json |-> TRUE,
      data |-> Obj(<<KV("success", Str("true")), KV("summary", Str(s))>>)] :
        s \in {"resumen", "sommaire"}}
    \cup
    {[kind |-> "response", ok |-> TRUE, status |-> "200", statusText |-> "OK",
      json |-> FALSE, data |-> Undef]}
    \cup
    {[kind |-> "response", ok |-> FALSE, status |-> "500",
      statusText |-> "Internal Server Error", json |-> TRUE, data |-> d] :
        d \in {Obj(<<KV("error", Str("Failed to process document")),
                     KV("message", Str("quota"))>>),
               Obj(<<KV("message", Str("quota"))>>),
               Obj(<<>>)}}
    \cup
    {[kind |-> "response", ok |-> FALSE, status |-> "502",
      statusText |-> "Bad Gateway", json |-> FALSE, data |-> Undef]}

\* no exception
NoError == [name |-> "", message |-> ""]

\* what the try block of handleSubmit throws for a fetch outcome
Thrown(o) ==
    IF o.kind = "network"
    THEN [name |-> "TypeError", message |-> o.statusText]
    ELSE IF ~o.ok
    THEN [name |-> "Error",
          message |->
             IF o.json
             THEN Or2(Get(o.data, "error"),
                      Or2(Get(o.data, "message"),
                          Str("Failed to process document"))).s
             ELSE "Server error: " \o o.status \o " " \o o.statusText]
    ELSE IF ~o.json
    THEN [name |-> "SyntaxError", message |-> "Unexpected token < in JSON"]
    ELSE NoError

\* the message the catch block of handleSubmit passes to setError
CatchMessage(err) ==
    IF err.name = "TypeError" /\ Includes(err.message, "fetch")
    THEN "Cannot connect to server. Please make sure the server is running on http://localhost:3001"
    ELSE Or2(Str(err.message),
             Str("An error occurred while processing the document")).s

\* the submit button ignores clicks while a request runs
SubmitDisabledWhileIdleOnly ==
    ~Truthy(selectedFile) \/ ~Truthy(selectedLanguage)

\* the disabled attribute of the submit button
SubmitDisabled ==
    isLoading \/ ~Truthy(selectedFile) \/ ~Truthy(selectedLanguage)

\* the file input changes
handleFileChange ==
    /\ \E file \in ChosenFiles :
          selectedFile' = IF Truthy(file) THEN file ELSE selectedFile
    /\ UNCHANGED <<selectedLanguage, isLoading, appSummary, appError,
                   inFlight, lastRequest>>
    /\ UNCHANGED serverVars

\* an entry of the language list is clicked
handleLanguageSelect ==
    /\ \E language \in AppLanguages : selectedLanguage' = Str(language)
    /\ UNCHANGED <<selectedFile, isLoading, appSummary, appError, inFlight,
                   lastRequest>>
    /\ UNCHANGED serverVars

\* the submit button is clicked: handleSubmit runs up to its fetch
handleSubmit ==
    /\ ~SubmitDisabled
    /\ inFlight < MaxInFlight
    /\ IF ~Truthy(selectedFile)
       THEN /\ appError' = Str("Please select a file first")
            /\ UNCHANGED <<isLoading, appSummary, inFlight, lastRequest>>
       ELSE IF ~Truthy(selectedLanguage)
       THEN /\ appError' = Str("Please select a language first")
            /\ UNCHANGED <<isLoading, appSummary, inFlight, lastRequest>>
       ELSE /\ isLoading' = TRUE
            /\ appError' = Null
            /\ appSummary' = Null
            /\ inFlight' = inFlight + 1
            /\ lastRequest' = [file |-> selectedFile,
                               language |-> selectedLanguage]
    /\ UNCHANGED <<selectedFile, selectedLanguage>>
    /\ UNCHANGED serverVars

\* a fetch ends and handleSubmit runs from it to the end of its finally
FetchCompletes ==
    /\ inFlight > 0
    /\ \E o \in FetchOutcomes :
          LET err == Thrown(o) IN
          IF err = NoError
          THEN /\ appSummary' = Get(o.data, "summary")
               /\ UNCHANGED appError
          ELSE /\ appError' = Str(CatchMessage(err))
               /\ UNCHANGED appSummary
    /\ isLoading' = FALSE
    /\ inFlight' = inFlight - 1
    /\ UNCHANGED <<selectedFile, selectedLanguage, lastRequest>>
    /\ UNCHANGED serverVars

NextApp ==
    \/ handleFileChange
    \/ handleLanguageSelect
    \/ handleSubmit
    \/ FetchCompletes

SpecApp == Init /\ [][NextApp]_vars

\* C30: in the App, summary and error are never both set; a handleSubmit
\* that sends a request has set isLoading before the request, isLoading stays
\* set while the request runs and is cleared when it ends, whether with a
\* summary, a server error or a network error; and a request is sent only
\* with both a file and a language selected.
C30_AppStateConsistent ==
    /\ [](~(appSummary # Null /\ appError # Null))
    /\ [](inFlight > 0 => isLoading)
    /\ [][inFlight' > inFlight =>
            /\ isLoading'
            /\ Truthy(selectedFile) /\ Truthy(selectedLanguage)
            /\ lastRequest' = [file |-> selectedFile,
                               language |-> selectedLanguage]]_vars
    /\ [][inFlight' < inFlight =>
            /\ ~isLoading'
            /\ (appSummary' # Null) # (appError' # Null)]_vars

\* a request went out with a file and a language, the server could not be
\* reached, and the App shows the error and has stopped loading
C30_Witness ==
    /\ appError = Str("Cannot connect to server. Please make sure the server is running on http://localhost:3001")
    /\ appSummary = Null
    /\ ~isLoading
    /\ inFlight = 0
    /\ lastRequest # Undef

====
